---- MODULE Spec2Model ----
(***************************************************************************)
(* streamdelay: the pipeline controller of src/src/pipelineMachine.ts.     *)
(*                                                                         *)
(* The controller is an XState v5 parallel machine with two regions,       *)
(* censorship and stream, that invokes one callback actor (runPipeline)    *)
(* while the stream region is in `running`.  The model keeps the state     *)
(* configuration, the context, the two `after` timers, every spawned       *)
(* runPipeline instance with its bus watcher and out-script, and the       *)
(* render commands sent during the last processing step.                   *)
(*                                                                         *)
(* Time is counted in whole seconds and kept relative to the present: a    *)
(* timer is the number of seconds left until it fires, a time stamp is the *)
(* number of seconds elapsed since it was taken.                           *)
(***************************************************************************)
EXTENDS Integers, Sequences, FiniteSets, TLC

VARIABLES
    settings,      \* context.settings: the immutable AppSettings
    status,        \* the machine actor: "active" | "error" | "exited" (process gone)
    censorship,    \* censorship region: "normal" | "active" | "deactivating"
    stream,        \* stream region: "stopped" | "waiting" | "started" | "restarting" | "error"
    startTime,     \* context.startTime as Date.now() - startTime (Null when unset)
    delayTimer,    \* seconds left on the pending STREAM_DELAY `after` timer, or Null
    restartTimer,  \* seconds left on the pending RESTART_DELAY `after` timer, or Null
    child,         \* the invoked pipelineActor: index into handles, 0 when none
    spawned,       \* number of runPipeline instances created so far
    handles,       \* every runPipeline instance: actor status, bus watcher, out-script
    cmds,          \* render commands sent to pipelineActor in the last step
    lastEv,        \* the event of the last step, and the state it was processed in
    intent,        \* operator's censorship request: "none" | "censor" | "uncensor"
    uncensorT,     \* seconds since the last UNCENSOR that followed the last CENSOR, or Null
    requestAge,    \* seconds since the last UNCENSOR processed while censored, or Null
    sockets,       \* server.ts `sockets`: the connected socket ids, in insertion order
    wsState,       \* readyState of every socket: "new" | "open" | "closing" | "closed"
    lastSnapshot,  \* server.ts `lastSnapshot`: "undefined", or "set" to the last one seen
    wsOut,         \* status messages passed to ws.send in the last step
    sent,          \* events passed to pipelineService.send by the request of the last step
    req,           \* the HTTP request or socket message of the last step
    resp,          \* the HTTP response of the last step
    scen           \* clock and position of a timed scenario (NoScenario otherwise)

vars == <<settings, status, censorship, stream, startTime, delayTimer, restartTimer,
          child, spawned, handles, cmds, lastEv, intent, uncensorT, requestAge,
          sockets, wsState, lastSnapshot, wsOut, sent, req, resp, scen>>

(***************************************************************************)
(* Bounds of the model and program constants.                              *)
(***************************************************************************)
MaxSpawns == 3          \* runPipeline instances per run
MaxAge == 1             \* startTime is followed for this many seconds
SmallDelay == 3         \* delaySeconds of the exhaustive runs
SmallRestart == 2       \* restartSeconds of the exhaustive runs
ScenarioEnd == 29       \* the clock of the timed scenarios stops here
MaxSockets == 2         \* WebSocket connections per run
MaxKeyLen == 2          \* characters of the api keys tried
ServerSpawns == 2       \* runPipeline instances in the runs of the server

DefaultDelaySeconds == 15
DefaultRestartSeconds == 3

Null == -1

ApiEvents == {"START", "STOP", "CENSOR", "UNCENSOR"}
BusMsgTypes == {"stream-start", "eos", "error", "state-changed"}
ExitCodes == {0, 1}

NoScenario == [clock |-> 0, step |-> 0]

\* the body of a request: its JSON kind and the values of the two fields
NoBody == [kind |-> "none", isCensored |-> "absent", isStreamRunning |-> "absent"]

\* key is the string given as api key, a sequence of characters
NoRequest == [kind |-> "none", key |-> <<>>, body |-> NoBody]

\* code is the HTTP status, body holds the status object if one is returned
NoResponse == [code |-> 0, body |-> <<>>]

NoEvent == [type |-> "none", from |-> 0, delivered |-> FALSE,
            cens |-> "none", stream |-> "none"]

\* an event of type ev, from the instance `from` (0: not from pipelineActor)
Event(ev, from, delivered) ==
    [type |-> ev, from |-> from, delivered |-> delivered,
     cens |-> censorship, stream |-> stream]

\* teardowns counts the runs of the cleanup function of the instance, render
\* is the last render command its receive handler took ("none" before any,
\* and once pipeline.stop() has run), censoredStart says that the instance
\* was started by a request that carried isCensored=true with
\* isStreamRunning=true and that no request has asked to un-censor since,
\* until the instance takes its first render command
NewHandle(outScript) ==
    [status |-> "active", watching |-> TRUE,
     script |-> IF outScript THEN "running" ELSE "none", teardowns |-> 0,
     render |-> "none", censoredStart |-> FALSE]

UnbornHandle ==
    [status |-> "unborn", watching |-> FALSE, script |-> "none", teardowns |-> 0,
     render |-> "none", censoredStart |-> FALSE]

\* runPipeline threw before new Pipeline(): no bus watcher, no out-script and
\* no cleanup function exist
FailedHandle ==
    [status |-> "error", watching |-> FALSE, script |-> "none", teardowns |-> 0,
     render |-> "none", censoredStart |-> FALSE]

(***************************************************************************)
(* delays                                                                  *)
(***************************************************************************)
STREAM_DELAY_RestartDelay(m) == m.settings.restartSeconds

STREAM_DELAY(m) == m.settings.delaySeconds

RESTART_DELAY_StreamDelay(m) == m.settings.delaySeconds

RESTART_DELAY(m) == m.settings.restartSeconds

(***************************************************************************)
(* guards                                                                  *)
(***************************************************************************)
isCensoredActiveOnly(m) == m.cens = "active"

isCensored(m) == m.cens \in {"active", "deactivating"}

isNormal(m) == m.cens = "normal"

(***************************************************************************)
(* The machine configuration as one record, with the effects of the step   *)
(* under way: iq is the internal queue of raised events, out the events    *)
(* sent to pipelineActor, stopped the actor stopped by the step, assigned  *)
(* whether an assign action replaced the context, wsOut what the           *)
(* subscriber of server.ts sent to the sockets.                            *)
(***************************************************************************)
Snapshot ==
    [settings |-> settings, status |-> status, cens |-> censorship, stream |-> stream,
     startTime |-> startTime, delayTimer |-> delayTimer,
     restartTimer |-> restartTimer, child |-> child, spawned |-> spawned,
     iq |-> <<>>, out |-> <<>>, stopped |-> 0,
     assigned |-> FALSE, lastSnapshot |-> lastSnapshot, wsOut |-> <<>>]

(***************************************************************************)
(* Censorship region: exit and entry actions of its state nodes.           *)
(***************************************************************************)
ExitCensorship(m) ==
    \* leaving `deactivating` cancels its `after` timer
    [m EXCEPT !.delayTimer = Null]

EnterNormal(m) ==
    [m EXCEPT !.cens = "normal", !.iq = Append(@, "NORMAL")]

EnterCensored(m) ==
    [m EXCEPT !.cens = "active", !.iq = Append(@, "CENSOR")]

EnterDeactivating(m) ==
    [m EXCEPT !.cens = "deactivating", !.delayTimer = STREAM_DELAY(m)]

CensorshipStepUncensorAnywhere(m, ev) ==
    CASE ev = "CENSOR" /\ m.cens = "normal" ->
            EnterCensored(ExitCensorship(m))
      [] ev = "UNCENSOR" ->
            EnterDeactivating(ExitCensorship(m))
      [] ev = "xstate.after.STREAM_DELAY" /\ m.cens = "deactivating" ->
            EnterNormal(ExitCensorship(m))
      [] OTHER -> m

CensorshipStepNoRestart(m, ev) ==
    CASE ev = "CENSOR" /\ m.cens = "normal" ->
            EnterCensored(ExitCensorship(m))
      [] ev = "UNCENSOR" /\ m.cens = "active" ->
            EnterDeactivating(ExitCensorship(m))
      [] ev = "xstate.after.STREAM_DELAY" /\ m.cens = "deactivating" ->
            EnterNormal(ExitCensorship(m))
      [] OTHER -> m

CensorshipStep(m, ev) ==
    CASE ev = "CENSOR" /\ m.cens = "normal" ->
            EnterCensored(ExitCensorship(m))
      [] ev = "UNCENSOR" /\ m.cens \in {"active", "deactivating"} ->
            EnterDeactivating(ExitCensorship(m))
      [] ev = "xstate.after.STREAM_DELAY" /\ m.cens = "deactivating" ->
            EnterNormal(ExitCensorship(m))
      [] OTHER -> m

(***************************************************************************)
(* Stream region: exit and entry actions of its state nodes.               *)
(***************************************************************************)
ExitStreamKeepsStartTime(m) ==
    [m EXCEPT !.restartTimer = Null,
              !.child = 0,
              !.assigned = @ \/ m.stream = "started",
              !.stopped = IF m.stream \in {"waiting", "started"} THEN m.child ELSE @]

ExitStreamNoStop(m) ==
    [m EXCEPT !.startTime = Null,
              !.restartTimer = Null,
              !.assigned = @ \/ m.stream = "started",
              !.child = 0]

ExitStream(m) ==
    \* started.exit resets startTime, leaving `running` stops the invoked
    \* actor, leaving `restarting` cancels its `after` timer
    [m EXCEPT !.startTime = Null,
              !.restartTimer = Null,
              !.assigned = @ \/ m.stream = "started",
              !.child = 0,
              !.stopped = IF m.stream \in {"waiting", "started"} THEN m.child ELSE @]

EnterStopped(m) ==
    [m EXCEPT !.stream = "stopped"]

EnterRestarting(m) ==
    [m EXCEPT !.stream = "restarting", !.restartTimer = RESTART_DELAY(m)]

EnterRunning(m) ==
    [m EXCEPT !.stream = "waiting", !.spawned = @ + 1, !.child = m.spawned + 1]

EnterStarted(m) ==
    [m EXCEPT !.stream = "started", !.startTime = 0, !.assigned = TRUE]

StreamStepKeepsTimer(m, ev) ==
    CASE ev = "START" /\ m.stream \in {"waiting", "started"} -> m
      [] ev = "START" -> EnterRunning(ExitStream(m))
      [] ev = "STOP" -> EnterStopped([ExitStream(m) EXCEPT !.restartTimer = m.restartTimer])
      [] ev = "PIPELINE_ENDED" -> EnterRestarting(ExitStream(m))
      [] ev = "PIPELINE_STARTED" /\ m.stream \in {"waiting", "started"} ->
            EnterStarted([m EXCEPT !.startTime = Null])
      [] ev = "xstate.after.RESTART_DELAY" /\ m.stream = "restarting" ->
            EnterRunning(ExitStream(m))
      [] OTHER -> m

StreamStepStartKeepsTimer(m, ev) ==
    CASE ev = "START" /\ m.stream \in {"waiting", "started"} -> m
      [] ev = "START" -> EnterRunning([ExitStream(m) EXCEPT !.restartTimer = m.restartTimer])
      [] ev = "STOP" -> EnterStopped(ExitStream(m))
      [] ev = "PIPELINE_ENDED" -> EnterRestarting(ExitStream(m))
      [] ev = "PIPELINE_STARTED" /\ m.stream \in {"waiting", "started"} ->
            EnterStarted([m EXCEPT !.startTime = Null])
      [] ev = "xstate.after.RESTART_DELAY" /\ m.stream = "restarting" ->
            EnterRunning(ExitStream(m))
      [] OTHER -> m

StreamStepStartRespawns(m, ev) ==
    CASE ev = "START" -> EnterRunning(ExitStream(m))
      [] ev = "STOP" -> EnterStopped(ExitStream(m))
      [] ev = "PIPELINE_ENDED" -> EnterRestarting(ExitStream(m))
      [] ev = "PIPELINE_STARTED" /\ m.stream \in {"waiting", "started"} ->
            EnterStarted([m EXCEPT !.startTime = Null])
      [] ev = "xstate.after.RESTART_DELAY" /\ m.stream = "restarting" ->
            EnterRunning(ExitStream(m))
      [] OTHER -> m

StreamStepStartedOnce(m, ev) ==
    CASE ev = "START" /\ m.stream \in {"waiting", "started"} -> m
      [] ev = "START" -> EnterRunning(ExitStream(m))
      [] ev = "STOP" -> EnterStopped(ExitStream(m))
      [] ev = "PIPELINE_ENDED" -> EnterRestarting(ExitStream(m))
      [] ev = "PIPELINE_STARTED" /\ m.stream = "waiting" ->
            EnterStarted([m EXCEPT !.startTime = Null])
      [] ev = "xstate.after.RESTART_DELAY" /\ m.stream = "restarting" ->
            EnterRunning(ExitStream(m))
      [] OTHER -> m

StreamStep(m, ev) ==
    CASE ev = "START" /\ m.stream \in {"waiting", "started"} -> m
      [] ev = "START" -> EnterRunning(ExitStream(m))
      [] ev = "STOP" -> EnterStopped(ExitStream(m))
      [] ev = "PIPELINE_ENDED" -> EnterRestarting(ExitStream(m))
      [] ev = "PIPELINE_STARTED" /\ m.stream \in {"waiting", "started"} ->
            EnterStarted([m EXCEPT !.startTime = Null])
      [] ev = "xstate.after.RESTART_DELAY" /\ m.stream = "restarting" ->
            EnterRunning(ExitStream(m))
      [] OTHER -> m

(***************************************************************************)
(* One microstep for an event: the transitions it enables in both regions. *)
(***************************************************************************)
MicrostepCensorRestamps(m, ev) ==
    LET r == StreamStep(CensorshipStep(m, ev), ev)
    IN  IF ev = "CENSOR" /\ r.stream = "started" THEN EnterStarted(r) ELSE r

Microstep(m, ev) == StreamStep(CensorshipStep(m, ev), ev)

(***************************************************************************)
(* started.always: the targetless eventless transitions.  They are         *)
(* selected after the microstep of every event, handled or not.            *)
(***************************************************************************)
AlwaysSwapped(m) ==
    IF m.stream # "started" THEN m
    ELSE IF isCensored(m)
         THEN [m EXCEPT !.out = Append(@, [to |-> m.child, type |-> "RENDER_NORMAL"])]
         ELSE IF isNormal(m)
              THEN [m EXCEPT !.out = Append(@, [to |-> m.child, type |-> "RENDER_CENSORED"])]
              ELSE m

AlwaysInRunning(m) ==
    IF m.stream \notin {"waiting", "started"} THEN m
    ELSE IF isCensored(m)
         THEN [m EXCEPT !.out = Append(@, [to |-> m.child, type |-> "RENDER_CENSORED"])]
         ELSE IF isNormal(m)
              THEN [m EXCEPT !.out = Append(@, [to |-> m.child, type |-> "RENDER_NORMAL"])]
              ELSE m

Always(m) ==
    IF m.stream # "started" THEN m
    ELSE IF isCensored(m)
         THEN [m EXCEPT !.out = Append(@, [to |-> m.child, type |-> "RENDER_CENSORED"])]
         ELSE IF isNormal(m)
              THEN [m EXCEPT !.out = Append(@, [to |-> m.child, type |-> "RENDER_NORMAL"])]
              ELSE m

DrainEventless(m) == Always(m)

(***************************************************************************)
(* One macrostep: the event's microstep, then eventless transitions and    *)
(* raised events until the internal queue is empty.                        *)
(***************************************************************************)
RECURSIVE Drain(_)
Drain(m) ==
    LET a == Always(m)
    IN  IF a.iq = <<>> THEN a
        ELSE Drain(Microstep([a EXCEPT !.iq = Tail(@)], Head(a.iq)))

Macrostep(m, ev) == Drain(Microstep(m, ev))

(***************************************************************************)
(* runPipeline throws while it builds the pipeline description when the    *)
(* settings name no usable output or encoder.                              *)
(***************************************************************************)
StartFails(m) == ~m.settings.valid

(***************************************************************************)
(* The error event of the invoked actor (xstate.error.actor.pipelineActor) *)
(* reaches the machine right after the step that started the actor.  No    *)
(* transition handles it (invoke has no onError, nothing targets           *)
(* stream.error), so the machine takes the error status with its state     *)
(* configuration unchanged, and the actor stops: its timers are canceled.  *)
(***************************************************************************)
ActorError(m) ==
    [m EXCEPT !.status = "error", !.delayTimer = Null, !.restartTimer = Null]

(***************************************************************************)
(* server.ts: the status object sent in HTTP responses and to the sockets. *)
(***************************************************************************)
formatStatusActiveOnly(snapshot) ==
    [delaySeconds |-> snapshot.settings.delaySeconds,
     restartSeconds |-> snapshot.settings.restartSeconds,
     isCensored |-> snapshot.cens = "active",
     isStreamRunning |-> snapshot.stream \in {"waiting", "started"},
     startTime |-> snapshot.startTime,
     state |-> [censorship |-> snapshot.cens, stream |-> snapshot.stream]]

formatStatus(snapshot) ==
    [delaySeconds |-> snapshot.settings.delaySeconds,
     restartSeconds |-> snapshot.settings.restartSeconds,
     isCensored |-> snapshot.cens \in {"active", "deactivating"},
     isStreamRunning |-> snapshot.stream \in {"waiting", "started"},
     startTime |-> snapshot.startTime,
     state |-> [censorship |-> snapshot.cens, stream |-> snapshot.stream]]

(***************************************************************************)
(* server.ts: the subscriber of the machine actor.  The actor calls it     *)
(* with its snapshot after every event it processes; a transition returns  *)
(* the snapshot object it was given unless it changes the set of active    *)
(* states or runs an assign action.  The subscriber sends the status to    *)
(* every socket of `sockets`, in insertion order; ws.send on a socket that *)
(* is no longer open delivers nothing and does not throw.                  *)
(***************************************************************************)
SameSnapshot(m, r) == r.cens = m.cens /\ r.stream = m.stream /\ ~r.assigned

StatusMessage(ws, st) == [to |-> ws, status |-> st, ok |-> wsState[ws] = "open"]

BroadcastFirstOnly(st) ==
    IF sockets = <<>> THEN <<>> ELSE <<StatusMessage(sockets[1], st)>>

BroadcastUntilFailure(st) ==
    LET all == [i \in 1..Len(sockets) |-> StatusMessage(sockets[i], st)]
        bad == {i \in 1..Len(sockets) : ~all[i].ok}
    IN  IF bad = {} THEN all
        ELSE SubSeq(all, 1, CHOOSE i \in bad : \A j \in bad : i <= j)

Broadcast(st) == [i \in 1..Len(sockets) |-> StatusMessage(sockets[i], st)]

Subscriber(m, r) ==
    IF r.lastSnapshot = "set" /\ SameSnapshot(m, r) THEN r
    ELSE [r EXCEPT !.lastSnapshot = "set", !.wsOut = @ \o Broadcast(formatStatus(r))]

(***************************************************************************)
(* actor.send: an event handed to the machine actor is dropped unless the  *)
(* actor is active; otherwise one macrostep, the observers are called with *)
(* its snapshot, and the error of the actor it started follows when        *)
(* runPipeline threw.                                                      *)
(***************************************************************************)
Deliver(m, ev) ==
    IF m.status # "active" THEN m
    ELSE LET r == Subscriber(m, Macrostep([m EXCEPT !.assigned = FALSE], ev))
         IN  IF r.spawned > m.spawned /\ StartFails(r) THEN ActorError(r) ELSE r

(***************************************************************************)
(* runPipeline: the cleanup function returned by the callback.             *)
(***************************************************************************)
CleanupNoop(h) == h

Cleanup(h) ==
    [h EXCEPT !.status = "stopped",
              !.script = IF @ = "running" THEN "killed" ELSE @,
              !.teardowns = @ + 1,
              !.render = "none",
              !.censoredStart = FALSE]

\* runPipeline receive: the handler of the running instance h takes the
\* commands sent to it, in the order they were sent
Receive(h, i, out) ==
    LET mine == SelectSeq(out, LAMBDA cmd : cmd.to = i)
    IN  IF mine = <<>> \/ h.status # "active" THEN h
        ELSE [h EXCEPT !.render = mine[Len(mine)].type,
                       !.censoredStart = FALSE]

HandlesAfter(base, r) ==
    [i \in 1..MaxSpawns |->
        IF i = r.stopped THEN Cleanup(Receive(base[i], i, r.out))
        ELSE IF i > spawned /\ i <= r.spawned
             THEN IF StartFails(r) THEN FailedHandle ELSE NewHandle(settings.outScript)
        ELSE Receive(base[i], i, r.out)]

(***************************************************************************)
(* The operator's request, as the events ask for it.                       *)
(***************************************************************************)
IntentAfter(ev) ==
    CASE ev = "CENSOR" -> "censor"
      [] ev = "UNCENSOR" /\ intent = "censor" -> "uncensor"
      [] OTHER -> intent

UncensorTAfter(ev) ==
    CASE ev = "CENSOR" -> Null
      [] ev = "UNCENSOR" /\ intent = "censor" -> 0
      [] ev = "UNCENSOR" /\ intent = "uncensor" /\ uncensorT < settings.delaySeconds -> 0
      [] OTHER -> uncensorT

\* a step that serves no HTTP request and no socket
NoRequestStep ==
    /\ sent' = <<>>
    /\ req' = NoRequest
    /\ resp' = NoResponse
    /\ UNCHANGED <<sockets, wsState>>

\* the un-censor requests that the machine took while censored
RequestAgeAfter(ev) ==
    IF ev = "UNCENSOR" /\ censorship \in {"active", "deactivating"} THEN 0
    ELSE requestAge

(***************************************************************************)
(* The actor replaces its snapshot by the result of the macrostep and runs *)
(* the deferred effects: sends to pipelineActor, actor start and stop.     *)
(***************************************************************************)
Commit(r, hs) ==
    /\ r.spawned <= MaxSpawns
    /\ status' = r.status
    /\ censorship' = r.cens
    /\ stream' = r.stream
    /\ startTime' = r.startTime
    /\ delayTimer' = r.delayTimer
    /\ restartTimer' = r.restartTimer
    /\ child' = r.child
    /\ spawned' = r.spawned
    /\ handles' = hs
    /\ cmds' = r.out
    /\ lastSnapshot' = r.lastSnapshot
    /\ wsOut' = r.wsOut
    /\ UNCHANGED settings

(***************************************************************************)
(* actor.send: the machine processes one event to completion.              *)
(***************************************************************************)
Process(ev) ==
    LET r == Deliver(Snapshot, ev)
    IN  /\ Commit(r, HandlesAfter(handles, r))
        /\ lastEv' = Event(ev, 0, status = "active")
        /\ intent' = IF status = "active" THEN IntentAfter(ev) ELSE intent
        /\ uncensorT' = IF status = "active" THEN UncensorTAfter(ev) ELSE uncensorT
        /\ requestAge' = IF status = "active" THEN RequestAgeAfter(ev) ELSE requestAge
        /\ NoRequestStep

(***************************************************************************)
(* sendBack of a callback actor: nothing is relayed once it is stopped.    *)
(* base is the instance table with the caller's own bookkeeping applied;   *)
(* inLoop says that the call is made from an iteration of watchBus, whose  *)
(* loop condition is then tested again.                                    *)
(***************************************************************************)
SendBackAlways(h) == TRUE

SendBackDelivers(h) == handles[h].status # "stopped"

SendBack(h, ev, base, inLoop) ==
    LET r == IF SendBackDelivers(h) THEN Deliver(Snapshot, ev) ELSE Snapshot
        hs == HandlesAfter(base, r)
    IN  /\ Commit(r, IF inLoop
                      THEN [hs EXCEPT ![h].watching = hs[h].status # "stopped"]
                      ELSE hs)
        /\ lastEv' = Event(ev, h, SendBackDelivers(h))
        /\ NoRequestStep
        /\ UNCHANGED <<intent, uncensorT, requestAge>>

(***************************************************************************)
(* Actions.                                                                *)
(***************************************************************************)
\* the process runs: nothing happens in a process that has exited
Alive == status # "exited"

\* pipelineService.send from the API server or from main()
Send(ev) ==
    /\ Alive
    /\ ev \in ApiEvents
    /\ Process(ev)
    /\ UNCHANGED scen

\* the STREAM_DELAY timer of censored.deactivating fires
StreamDelayElapsed ==
    /\ Alive
    /\ delayTimer = 0
    /\ Process("xstate.after.STREAM_DELAY")
    /\ UNCHANGED scen

\* the RESTART_DELAY timer of stream.restarting fires
RestartDelayElapsed ==
    /\ Alive
    /\ restartTimer = 0
    /\ Process("xstate.after.RESTART_DELAY")
    /\ UNCHANGED scen

\* one iteration of watchBus: busPop resolves with a message
BusMessage(h, t) ==
    /\ Alive
    /\ h \in 1..spawned
    /\ handles[h].watching
    /\ t \in BusMsgTypes
    /\ UNCHANGED scen
    /\ IF t \in {"eos", "error"} THEN SendBack(h, "PIPELINE_ENDED", handles, TRUE)
       ELSE IF t = "stream-start" THEN SendBack(h, "PIPELINE_STARTED", handles, TRUE)
       ELSE /\ handles' = [handles EXCEPT ![h].watching = handles[h].status # "stopped"]
            /\ cmds' = <<>>
            /\ wsOut' = <<>>
            /\ lastEv' = NoEvent
            /\ NoRequestStep
            /\ UNCHANGED <<settings, status, censorship, stream, startTime, delayTimer,
                           restartTimer, child, spawned, intent, uncensorT, requestAge,
                           lastSnapshot>>

\* the out-script exits: by itself with a code, or killed by the cleanup
ScriptExit(h, code) ==
    /\ Alive
    /\ h \in 1..spawned
    /\ handles[h].script \in {"running", "killed"}
    /\ code \in ExitCodes
    /\ UNCHANGED scen
    /\ LET base == [handles EXCEPT ![h].script = "exited"]
       IN  IF handles[h].script = "killed" \/ code # 0
           THEN SendBack(h, "PIPELINE_ENDED", base, FALSE)
           ELSE /\ handles' = base
                /\ cmds' = <<>>
                /\ wsOut' = <<>>
                /\ lastEv' = NoEvent
                /\ NoRequestStep
                /\ UNCHANGED <<settings, status, censorship, stream, startTime, delayTimer,
                               restartTimer, child, spawned, intent, uncensorT, requestAge,
                               lastSnapshot>>

\* one second passes, unless a timer is due: a due timer fires first
TimerDue == delayTimer = 0 \/ restartTimer = 0

Older(t, cap) == IF t = Null THEN Null ELSE IF t < cap THEN t + 1 ELSE cap

\* busPop(1000) resolves within a second: by then an aborted watchBus has
\* tested its loop condition and returned
BusPopTimeout(h) ==
    IF h.status = "stopped" THEN [h EXCEPT !.watching = FALSE] ELSE h

Elapse ==
    /\ Alive
    /\ ~TimerDue
    /\ handles' = [i \in 1..MaxSpawns |-> BusPopTimeout(handles[i])]
    /\ delayTimer' = IF delayTimer = Null THEN Null ELSE delayTimer - 1
    /\ restartTimer' = IF restartTimer = Null THEN Null ELSE restartTimer - 1
    /\ startTime' = Older(startTime, MaxAge)
    /\ uncensorT' = Older(uncensorT, settings.delaySeconds)
    /\ requestAge' = Older(requestAge, settings.delaySeconds)
    /\ cmds' = <<>>
    /\ wsOut' = <<>>
    /\ lastEv' = NoEvent
    /\ NoRequestStep
    /\ UNCHANGED <<settings, status, censorship, stream, child, spawned, intent, lastSnapshot>>

Tick ==
    /\ Elapse
    /\ UNCHANGED scen

(***************************************************************************)
(* The state after initPipeline: censorship.normal, stream.stopped.        *)
(***************************************************************************)
InitMachine ==
    /\ status = "active"
    /\ censorship = "normal"
    /\ stream = "stopped"
    /\ startTime = Null
    /\ delayTimer = Null
    /\ restartTimer = Null
    /\ child = 0
    /\ spawned = 0
    /\ handles = [i \in 1..MaxSpawns |-> UnbornHandle]
    /\ cmds = <<>>
    /\ lastEv = NoEvent
    /\ intent = "none"
    /\ uncensorT = Null
    /\ requestAge = Null
    /\ sockets = <<>>
    /\ wsState = [ws \in 1..MaxSockets |-> "new"]
    /\ lastSnapshot = "undefined"
    /\ wsOut = <<>>
    /\ sent = <<>>
    /\ req = NoRequest
    /\ resp = NoResponse

Init ==
    /\ settings \in [delaySeconds : {SmallDelay}, restartSeconds : {SmallRestart},
                      outScript : BOOLEAN, valid : BOOLEAN]
    /\ scen = NoScenario
    /\ InitMachine

Next ==
    \/ \E ev \in ApiEvents : Send(ev)
    \/ StreamDelayElapsed
    \/ RestartDelayElapsed
    \/ \E h \in 1..MaxSpawns, t \in BusMsgTypes : BusMessage(h, t)
    \/ \E h \in 1..MaxSpawns, code \in ExitCodes : ScriptExit(h, code)
    \/ Tick

Spec == Init /\ [][Next]_vars

(***************************************************************************)
(* The process is ended from outside (a signal, the container stopping).   *)
(* src/src/index.ts installs no handler and never stops the actor: no      *)
(* cleanup function runs.                                                  *)
(***************************************************************************)
Terminate ==
    /\ status = "active"
    /\ status' = "exited"
    /\ cmds' = <<>>
    /\ wsOut' = <<>>
    /\ lastEv' = NoEvent
    /\ NoRequestStep
    /\ UNCHANGED <<settings, censorship, stream, startTime, delayTimer, restartTimer,
                   child, spawned, handles, intent, uncensorT, requestAge, lastSnapshot, scen>>

(***************************************************************************)
(* Time passes and a due timer fires: the event loop of the process does   *)
(* not starve its timers.                                                  *)
(***************************************************************************)
FairSpec ==
    Spec /\ WF_vars(Tick) /\ WF_vars(StreamDelayElapsed) /\ WF_vars(RestartDelayElapsed)

ShutdownNext ==
    \/ Next
    \/ Terminate

ShutdownSpec == Init /\ [][ShutdownNext]_vars

(***************************************************************************)
(* A timed scenario with the default delays: START, PIPELINE_STARTED,      *)
(* CENSOR and UNCENSOR at t=0, then either nothing more, or CENSOR at t=10 *)
(* and UNCENSOR at t=12.  scen.clock is the time, scen.step the number of  *)
(* scripted events already sent.                                           *)
(***************************************************************************)
Script ==
    << [at |-> 0, ev |-> "START", optional |-> FALSE],
       [at |-> 0, ev |-> "PIPELINE_STARTED", optional |-> FALSE],
       [at |-> 0, ev |-> "CENSOR", optional |-> FALSE],
       [at |-> 0, ev |-> "UNCENSOR", optional |-> FALSE],
       [at |-> 10, ev |-> "CENSOR", optional |-> TRUE],
       [at |-> 12, ev |-> "UNCENSOR", optional |-> FALSE] >>

ScenarioInit ==
    /\ settings \in [delaySeconds : {DefaultDelaySeconds},
                      restartSeconds : {DefaultRestartSeconds},
                      outScript : BOOLEAN, valid : {TRUE}]
    /\ scen = NoScenario
    /\ InitMachine

\* the next scripted event is sent at its time
ScenarioEvent ==
    /\ scen.step < Len(Script)
    /\ scen.clock = Script[scen.step + 1].at
    /\ scen' = [scen EXCEPT !.step = @ + 1]
    /\ IF Script[scen.step + 1].ev = "PIPELINE_STARTED"
       THEN /\ child # 0
            /\ handles[child].watching
            /\ SendBack(child, "PIPELINE_STARTED", handles, TRUE)
       ELSE Process(Script[scen.step + 1].ev)

\* one second passes, unless a timer or a scripted event is due
ScenarioTick ==
    /\ scen.clock < ScenarioEnd
    /\ IF scen.step = Len(Script) THEN TRUE
       ELSE IF Script[scen.step + 1].at = scen.clock THEN Script[scen.step + 1].optional
       ELSE TRUE
    /\ Elapse
    /\ scen' = [scen EXCEPT !.clock = @ + 1]

ScenarioNext ==
    \/ ScenarioEvent
    \/ StreamDelayElapsed
    \/ ScenarioTick

ScenarioSpec == ScenarioInit /\ [][ScenarioNext]_vars

(***************************************************************************)
(* server.ts: the API key.  A key is a sequence of characters; the         *)
(* character "e-acute" takes two bytes in UTF-8, "a" takes one.            *)
(***************************************************************************)
KeyChars == {"a", "e-acute"}

Utf8Bytes(c) == IF c = "e-acute" THEN 2 ELSE 1

RECURSIVE ByteLength(_)
ByteLength(s) == IF s = <<>> THEN 0 ELSE Utf8Bytes(Head(s)) + ByteLength(Tail(s))

\* argv.apiKey of the runs
apiKey == <<"a", "e-acute">>

\* the keys a request may carry; <<>> is a request without a key
Keys == UNION {[1..n -> KeyChars] : n \in 0..MaxKeyLen}

(***************************************************************************)
(* The preHandler hook: 0 lets the request pass, otherwise the HTTP status *)
(* of the reply.  The lengths compared are those of the strings;           *)
(* crypto.timingSafeEqual throws a RangeError when the byte lengths of its *)
(* buffers differ, the hook's promise rejects and fastify replies 500.     *)
(***************************************************************************)
preHandlerByBytes(providedApiKey) ==
    IF providedApiKey = <<>> THEN 400
    ELSE IF ByteLength(providedApiKey) # ByteLength(apiKey) THEN 403
    ELSE IF providedApiKey # apiKey THEN 403
    ELSE 0

preHandlerOpen(providedApiKey) ==
    IF providedApiKey = <<>> THEN 400 ELSE 0

preHandler(providedApiKey) ==
    IF providedApiKey = <<>> THEN 400
    ELSE IF Len(providedApiKey) # Len(apiKey) THEN 403
    ELSE IF ByteLength(providedApiKey) # ByteLength(apiKey) THEN 500
    ELSE IF providedApiKey # apiKey THEN 403
    ELSE 0

(***************************************************************************)
(* Request bodies.  A field of a JSON object is absent, a boolean, the     *)
(* string "false", another string, or null; a body is an object, the JSON  *)
(* value null, or text that is no JSON.                                    *)
(***************************************************************************)
FieldValues == {"absent", "true", "false", "str:false", "str:yes", "null"}

Bodies ==
    [kind : {"object"}, isCensored : FieldValues, isStreamRunning : FieldValues]
    \cup {[kind |-> k, isCensored |-> "absent", isStreamRunning |-> "absent"] :
             k \in {"null", "garbage"}}

\* two bodies for the requests of clients without the key: one that the
\* validator accepts, one that it rejects
ProbeBodies ==
    {[kind |-> "object", isCensored |-> "true", isStreamRunning |-> "true"],
     [kind |-> "object", isCensored |-> "str:yes", isStreamRunning |-> "false"]}

Requests ==
    (Keys \X ProbeBodies) \cup ({apiKey} \X Bodies)

\* the bodies a typed client sends: booleans only
TypedBodies ==
    [kind : {"object"}, isCensored : {"absent", "true", "false"},
     isStreamRunning : {"absent", "true", "false"}]

\* JavaScript truthiness of a field value
Truthy(v) == v \in {"true", "str:false", "str:yes"}

\* PatchStateRequestSchema under fastify's validator, which coerces types:
\* the string "false" and null become false, other strings are rejected
Coercible(v) == v \in {"absent", "true", "false", "str:false", "null"}

Coerce(v) == IF v \in {"str:false", "null"} THEN "false" ELSE v

ValidBody(body) ==
    body.kind = "object" /\ Coercible(body.isCensored) /\ Coercible(body.isStreamRunning)

CoercedBody(body) ==
    [body EXCEPT !.isCensored = Coerce(@), !.isStreamRunning = Coerce(@)]

(***************************************************************************)
(* handlePatchState: the events it sends to the machine actor, in order.   *)
(***************************************************************************)
handlePatchStateStreamFirst(patchState) ==
    (IF patchState.isStreamRunning = "absent" THEN <<>>
     ELSE IF Truthy(patchState.isStreamRunning) THEN <<"START">> ELSE <<"STOP">>)
    \o (IF patchState.isCensored = "absent" THEN <<>>
        ELSE IF Truthy(patchState.isCensored) THEN <<"CENSOR">> ELSE <<"UNCENSOR">>)

handlePatchState(patchState) ==
    (IF patchState.isCensored = "absent" THEN <<>>
     ELSE IF Truthy(patchState.isCensored) THEN <<"CENSOR">> ELSE <<"UNCENSOR">>)
    \o (IF patchState.isStreamRunning = "absent" THEN <<>>
        ELSE IF Truthy(patchState.isStreamRunning) THEN <<"START">> ELSE <<"STOP">>)

\* the events of a PATCH /status that passed validation and the key check
PatchEvents(body) == handlePatchState(CoercedBody(body))

\* the events of a socket message: JSON.parse throws on text that is no
\* JSON, handlePatchState throws on null; both are caught
MessageEventsValidated(body) ==
    IF ValidBody(body) THEN handlePatchState(CoercedBody(body)) ELSE <<>>

MessageEvents(body) ==
    IF body.kind = "object" THEN handlePatchState(body) ELSE <<>>

(***************************************************************************)
(* The events of one handler are sent one after the other; each send       *)
(* returns when the machine has processed the event.                       *)
(***************************************************************************)
RECURSIVE SendAll(_, _)
SendAll(m, evs) ==
    IF evs = <<>> THEN m ELSE SendAll(Deliver(m, Head(evs)), Tail(evs))

HandleEvents(evs) ==
    LET r == SendAll(Snapshot, evs)
        mid == SendAll(Snapshot, SubSeq(evs, 1, Len(evs) - 1))
        first == IF evs = <<>> THEN "none" ELSE Head(evs)
        hs == HandlesAfter(handles, r)
    IN  /\ Commit(r, IF evs = <<"CENSOR", "START">> /\ r.spawned > spawned
                         /\ hs[r.spawned].status = "active"
                      THEN [hs EXCEPT ![r.spawned].censoredStart = TRUE]
                      ELSE IF first = "UNCENSOR"
                      THEN [i \in 1..MaxSpawns |-> [hs[i] EXCEPT !.censoredStart = FALSE]]
                      ELSE hs)
        /\ sent' = evs
        /\ lastEv' = IF evs = <<>> THEN NoEvent
                     ELSE [type |-> evs[Len(evs)], from |-> 0,
                           delivered |-> mid.status = "active",
                           cens |-> mid.cens, stream |-> mid.stream]
        /\ intent' = IF status = "active" THEN IntentAfter(first) ELSE intent
        /\ uncensorT' = IF status = "active" THEN UncensorTAfter(first) ELSE uncensorT
        /\ requestAge' = IF status = "active" THEN RequestAgeAfter(first) ELSE requestAge

\* a request that is answered without reaching its handler
Refuse(code) ==
    /\ resp' = [code |-> code, body |-> <<>>]
    /\ sent' = <<>>
    /\ cmds' = <<>>
    /\ wsOut' = <<>>
    /\ lastEv' = NoEvent
    /\ UNCHANGED <<settings, status, censorship, stream, startTime, delayTimer,
                   restartTimer, child, spawned, handles, intent, uncensorT, requestAge,
                   lastSnapshot>>

(***************************************************************************)
(* PATCH /status: the body is parsed and validated, then the preHandler    *)
(* hook runs, then the handler.                                            *)
(***************************************************************************)
Patch(key, body) ==
    /\ Alive
    /\ req' = [kind |-> "PATCH", key |-> key, body |-> body]
    /\ UNCHANGED <<sockets, wsState, scen>>
    /\ IF ~ValidBody(body) THEN Refuse(400)
       ELSE IF preHandler(key) # 0 THEN Refuse(preHandler(key))
       ELSE /\ HandleEvents(PatchEvents(body))
            /\ resp' = [code |-> 200,
                        body |-> <<formatStatus(SendAll(Snapshot, PatchEvents(body)))>>]

\* GET /status
GetStatus(key) ==
    /\ Alive
    /\ req' = [kind |-> "GET", key |-> key, body |-> NoBody]
    /\ UNCHANGED <<sockets, wsState, scen>>
    /\ IF preHandler(key) # 0 THEN Refuse(preHandler(key))
       ELSE /\ HandleEvents(<<>>)
            /\ resp' = [code |-> 200, body |-> <<formatStatus(Snapshot)>>]

(***************************************************************************)
(* GET /ws: the socket is added to `sockets` and is sent the current       *)
(* status.  101 is the status of the protocol switch.  The sockets are     *)
(* numbered in the order of their connection requests.                     *)
(***************************************************************************)
GreetingNone(ws) == <<>>

\* the handler's own ws.send: the socket is open when the handler runs
Greeting(ws) == <<[to |-> ws, status |-> formatStatus(Snapshot), ok |-> TRUE]>>

WsConnect(ws, key) ==
    /\ Alive
    /\ wsState[ws] = "new"
    /\ \A earlier \in 1..(ws - 1) : wsState[earlier] # "new"
    /\ req' = [kind |-> "WS", key |-> key, body |-> NoBody]
    /\ UNCHANGED scen
    /\ IF preHandler(key) # 0
       THEN /\ Refuse(preHandler(key))
            /\ wsState' = [wsState EXCEPT ![ws] = "closed"]
            /\ UNCHANGED sockets
       ELSE /\ sockets' = Append(sockets, ws)
            /\ wsState' = [wsState EXCEPT ![ws] = "open"]
            /\ resp' = [code |-> 101, body |-> <<>>]
            /\ sent' = <<>>
            /\ cmds' = <<>>
            /\ wsOut' = Greeting(ws)
            /\ lastEv' = NoEvent
            /\ UNCHANGED <<settings, status, censorship, stream, startTime, delayTimer,
                           restartTimer, child, spawned, handles, intent, uncensorT,
                           requestAge, lastSnapshot>>

\* a message arrives on an open socket
WsMessage(ws, body) ==
    /\ Alive
    /\ wsState[ws] = "open"
    /\ req' = [kind |-> "MESSAGE", key |-> <<>>, body |-> body]
    /\ resp' = NoResponse
    /\ UNCHANGED <<sockets, wsState, scen>>
    /\ HandleEvents(MessageEvents(body))

\* the closing handshake of a socket begins: it is no longer open, and its
\* 'close' event has not been emitted yet
WsClosing(ws) ==
    /\ Alive
    /\ wsState[ws] = "open"
    /\ wsState' = [wsState EXCEPT ![ws] = "closing"]
    /\ req' = NoRequest
    /\ UNCHANGED <<sockets, scen>>
    /\ Refuse(0)

\* the 'close' event of a socket: it is deleted from `sockets`
WsClosed(ws) ==
    /\ Alive
    /\ wsState[ws] \in {"open", "closing"}
    /\ wsState' = [wsState EXCEPT ![ws] = "closed"]
    /\ sockets' = SelectSeq(sockets, LAMBDA s : s # ws)
    /\ req' = NoRequest
    /\ UNCHANGED scen
    /\ Refuse(0)

(***************************************************************************)
(* The state when initAPIServer has subscribed to the actor: main() has    *)
(* sent START if the --start option is set, no socket is connected and the *)
(* subscriber has seen no snapshot.  With settings that make runPipeline   *)
(* throw, the START of main() ends the process before the server listens:  *)
(* no request is served in such a run.                                     *)
(***************************************************************************)
ServerInit(settingsOfRun) ==
    /\ settings \in settingsOfRun
    /\ scen = NoScenario
    /\ sockets = <<>>
    /\ wsState = [ws \in 1..MaxSockets |-> "new"]
    /\ lastSnapshot = "undefined"
    /\ wsOut = <<>>
    /\ sent = <<>>
    /\ req = NoRequest
    /\ resp = NoResponse
    /\ cmds = <<>>
    /\ lastEv = NoEvent
    /\ intent = "none"
    /\ uncensorT = Null
    /\ requestAge = Null
    /\ \E start \in BOOLEAN :
          LET created == [settings |-> settings, status |-> "active", cens |-> "normal",
                          stream |-> "stopped", startTime |-> Null, delayTimer |-> Null,
                          restartTimer |-> Null, child |-> 0, spawned |-> 0,
                          iq |-> <<>>, out |-> <<>>, stopped |-> 0, assigned |-> FALSE,
                          lastSnapshot |-> "undefined", wsOut |-> <<>>]
              r == IF start THEN Deliver(created, "START") ELSE created
          IN  /\ start => settings.valid
              /\ status = r.status
              /\ censorship = r.cens
              /\ stream = r.stream
              /\ startTime = r.startTime
              /\ delayTimer = r.delayTimer
              /\ restartTimer = r.restartTimer
              /\ child = r.child
              /\ spawned = r.spawned
              /\ handles = [i \in 1..MaxSpawns |->
                               IF i > r.spawned THEN UnbornHandle
                               ELSE IF StartFails(r) THEN FailedHandle
                               ELSE NewHandle(settings.outScript)]

\* the runs of the server start the pipeline ServerSpawns times at most
FewRuns == spawned' <= ServerSpawns

(***************************************************************************)
(* The server with its sockets: clients that hold the key and send typed   *)
(* bodies, the pipeline's messages and the timers, which are set to no     *)
(* delay: a timer is due as soon as it is started, and fires as an event   *)
(* of its own.                                                             *)
(***************************************************************************)
SocketInit ==
    ServerInit([delaySeconds : {0}, restartSeconds : {0},
                outScript : {FALSE}, valid : BOOLEAN])

SocketNext ==
    \/ \E ws \in 1..MaxSockets : WsConnect(ws, apiKey)
    \/ \E ws \in 1..MaxSockets, body \in TypedBodies : WsMessage(ws, body) /\ FewRuns
    \/ \E ws \in 1..MaxSockets : WsClosing(ws)
    \/ \E ws \in 1..MaxSockets : WsClosed(ws)
    \/ StreamDelayElapsed
    \/ RestartDelayElapsed /\ FewRuns
    \/ \E h \in 1..MaxSpawns, t \in {"stream-start", "eos"} : BusMessage(h, t)

SocketSpec == SocketInit /\ [][SocketNext]_vars

(***************************************************************************)
(* The API with every key and every body: requests and socket messages of  *)
(* any client, and the pipeline's messages; no time passes.                *)
(***************************************************************************)
ApiInit ==
    ServerInit([delaySeconds : {SmallDelay}, restartSeconds : {SmallRestart},
                outScript : {FALSE}, valid : BOOLEAN])

ApiNext ==
    \/ \E r \in Requests : Patch(r[1], r[2]) /\ FewRuns
    \/ \E key \in Keys : GetStatus(key)
    \/ \E key \in Keys : WsConnect(1, key)
    \/ \E body \in Bodies : WsMessage(1, body) /\ FewRuns
    \/ \E h \in 1..MaxSpawns, t \in {"stream-start", "eos"} : BusMessage(h, t)

ApiSpec == ApiInit /\ [][ApiNext]_vars

(***************************************************************************)
(* Properties.                                                             *)
(***************************************************************************)
Sent(type) == \E i \in 1..Len(cmds) : cmds[i].type = type

Released == intent = "uncensor" /\ uncensorT >= settings.delaySeconds

\* C1 (delay invariant): RENDER_NORMAL is sent only if no CENSOR was ever
\* processed, or if the last CENSOR was followed by an UNCENSOR and at least
\* delaySeconds have passed since the last such UNCENSOR.
C1_DelayInvariant == Sent("RENDER_NORMAL") => intent = "none" \/ Released

\* C2: right after a CENSOR event the censorship region is CensoredActive and
\* no release timer is pending, whatever the state it was processed in.
C2_CensorLeavesActive ==
    lastEv.type = "CENSOR" => censorship = "active" /\ delayTimer = Null

\* C3: the censorship region is Normal only if no CENSOR was ever processed,
\* or if an UNCENSOR came after the last CENSOR and the full delaySeconds has
\* passed since it with no CENSOR in between.
C3_NormalOnlyAfterDelay == censorship = "normal" => intent = "none" \/ Released

\* the time of the last scripted UNCENSOR plus delaySeconds: t=27
C4_ReleaseAt == Script[6].at + DefaultDelaySeconds

\* C4: in the scenario with CENSOR at t=10 and UNCENSOR at t=12, RENDER_NORMAL
\* is sent at t=27 (12 + delaySeconds) and at no earlier time after the first
\* CENSOR.
C4_RestartedWindow ==
    /\ scen.step \in 3..4 /\ scen.clock <= Script[5].at => ~Sent("RENDER_NORMAL")
    /\ scen.step >= 5 =>
          /\ Sent("RENDER_NORMAL") => scen.clock = C4_ReleaseAt
          /\ lastEv.type = "xstate.after.STREAM_DELAY" =>
                scen.clock = C4_ReleaseAt /\ Sent("RENDER_NORMAL")
          /\ scen.clock > C4_ReleaseAt => censorship = "normal"
          /\ scen.clock < C4_ReleaseAt => censorship # "normal"

C4_Witness ==
    /\ scen.step = Len(Script)
    /\ scen.clock = C4_ReleaseAt
    /\ Sent("RENDER_NORMAL")

RenderFor(c) == IF c = "normal" THEN "RENDER_NORMAL" ELSE "RENDER_CENSORED"

\* C5: the step that enters Running.Started sends exactly one render command,
\* to the instance that started, matching the censorship state of that
\* instant; while the stream is Running.Waiting no command is sent.
C5_OneCommandOnStart ==
    /\ lastEv.type = "PIPELINE_STARTED" /\ lastEv.delivered =>
          /\ stream = "started"
          /\ child = lastEv.from
          /\ cmds = << [to |-> child, type |-> RenderFor(censorship)] >>
    /\ stream = "waiting" => cmds = <<>>

C5_Witness ==
    /\ lastEv.type = "PIPELINE_STARTED"
    /\ lastEv.delivered
    /\ lastEv.stream = "waiting"
    /\ censorship = "deactivating"
    /\ cmds = << [to |-> child, type |-> "RENDER_CENSORED"] >>

\* C6 as claimed: a CENSOR processed in CensoredActive leaves the region
\* CensoredActive, starts no timer and sends no render command.
C6_CensorSendsNothing ==
    lastEv.type = "CENSOR" /\ lastEv.cens = "active" =>
        censorship = "active" /\ delayTimer = Null /\ cmds = <<>>

\* C6 as amended: a CENSOR processed in CensoredActive leaves the region
\* CensoredActive and starts no timer; it sends no render command unless the
\* stream is Running.Started, where RENDER_CENSORED is sent once more.
C6_CensorWhileActive ==
    lastEv.type = "CENSOR" /\ lastEv.cens = "active" =>
        /\ censorship = "active"
        /\ delayTimer = Null
        /\ stream = lastEv.stream
        /\ cmds = IF stream = "started"
                  THEN << [to |-> child, type |-> "RENDER_CENSORED"] >>
                  ELSE <<>>

C6_Witness ==
    /\ lastEv.type = "CENSOR"
    /\ lastEv.cens = "active"
    /\ stream = "started"
    /\ cmds = << [to |-> child, type |-> "RENDER_CENSORED"] >>

EngineEvents == {"PIPELINE_STARTED", "PIPELINE_ENDED"}

\* C7 (stale-generation immunity): a PIPELINE_STARTED or PIPELINE_ENDED sent
\* back by an instance that was already stopped changes nothing in the stream
\* region: its state, the invoked instance, its timer and startTime stay.
C7_StaleImmunity ==
    [][\A h \in 1..MaxSpawns :
          handles[h].status = "stopped" /\ lastEv'.from = h
          /\ lastEv'.type \in EngineEvents =>
              /\ stream' = stream
              /\ child' = child
              /\ spawned' = spawned
              /\ restartTimer' = restartTimer
              /\ startTime' = startTime]_vars

C7_Witness ==
    /\ lastEv.type = "PIPELINE_ENDED"
    /\ lastEv.from # 0
    /\ handles[lastEv.from].status = "stopped"
    /\ ~lastEv.delivered
    /\ stream \in {"waiting", "started"}
    /\ child > lastEv.from

\* C8: no event sent back by an instance after its cleanup ran is delivered to
\* the machine; every engine event the machine processes comes from the
\* instance that is invoked and running at that moment.
C8_NothingAfterCleanup ==
    [][/\ \A h \in 1..MaxSpawns :
             handles[h].status = "stopped" /\ lastEv'.from = h => ~lastEv'.delivered
       /\ lastEv'.from # 0 /\ lastEv'.delivered =>
             lastEv'.from = child /\ handles[child].status = "active"]_vars

\* the exit handler of a killed out-script called sendBack, in vain
C8_Witness ==
    /\ lastEv.type = "PIPELINE_ENDED"
    /\ lastEv.from # 0
    /\ ~lastEv.delivered
    /\ handles[lastEv.from].script = "exited"
    /\ handles[lastEv.from].watching

\* C9 (restart loop): a PIPELINE_ENDED of the running instance moves the stream
\* to Restarting, with the instance stopped and a timer of restartSeconds; the
\* stream leaves Restarting only by STOP, START or that timer, which fires
\* when its restartSeconds have passed and enters Running.Waiting with a new
\* instance, after every failure alike.
C9_RestartLoop ==
    [][/\ lastEv'.type = "PIPELINE_ENDED" /\ lastEv'.delivered =>
             /\ stream \in {"waiting", "started"}
             /\ stream' = "restarting"
             /\ child' = 0
             /\ handles'[child].status = "stopped"
             /\ spawned' = spawned
             /\ restartTimer' = settings.restartSeconds
       /\ stream = "restarting" /\ stream' # "restarting" =>
             lastEv'.type \in {"STOP", "START", "xstate.after.RESTART_DELAY"}
       /\ stream = "restarting" /\ stream' = "restarting" =>
             \/ restartTimer' = restartTimer
             \/ restartTimer > 0 /\ restartTimer' = restartTimer - 1 /\ lastEv' = NoEvent
       /\ lastEv'.type = "xstate.after.RESTART_DELAY" =>
             /\ stream = "restarting"
             /\ restartTimer = 0
             /\ stream' = "waiting"
             /\ spawned' = spawned + 1
             /\ child' = spawned'
             /\ handles'[child'].status = "active"
             /\ restartTimer' = Null]_vars

\* the second restart in a row
C9_Witness ==
    /\ lastEv.type = "xstate.after.RESTART_DELAY"
    /\ stream = "waiting"
    /\ child = 3
    /\ handles[1].status = "stopped"
    /\ handles[2].status = "stopped"

\* C10: a STOP processed in Restarting leaves the stream Stopped with the
\* backoff timer canceled and no instance spawned; while Stopped no timer is
\* pending and no instance exists, and only a START leaves Stopped.
C10_StopWhileRestarting ==
    [][/\ lastEv'.type = "STOP" /\ stream = "restarting" =>
             stream' = "stopped" /\ spawned' = spawned
       /\ stream' = "stopped" => restartTimer' = Null /\ child' = 0
       /\ stream = "stopped" /\ (stream' # "stopped" \/ spawned' # spawned) =>
             lastEv'.type = "START"]_vars

C10_Witness ==
    /\ lastEv.type = "STOP"
    /\ lastEv.stream = "restarting"
    /\ stream = "stopped"

\* C11: when runPipeline throws while the instance is spawned, the stream
\* region is in Error, the machine stays active (it keeps processing events)
\* and no restart timer is pending.
C11_ConstructionFailure ==
    (\E h \in 1..MaxSpawns : handles[h].status = "error") =>
        stream = "error" /\ status = "active" /\ restartTimer = Null

\* an instance that was spawned and whose cleanup has not run
Live(h) == handles[h].status = "active"

\* C12: a live instance of runPipeline exists if and only if the stream
\* region is in Running (Waiting or Started).
C12_HandleIffRunning ==
    (\E h \in 1..MaxSpawns : Live(h)) <=> stream \in {"waiting", "started"}

\* C13: startTime is set if and only if the stream region is in
\* Running.Started: the step that enters Started stamps it anew, every step
\* that leaves Started (STOP, START after a failure, engine failure) resets it.
C13_StartTimeIffStarted ==
    /\ startTime # Null <=> stream = "started"
    /\ lastEv.type = "PIPELINE_STARTED" /\ lastEv.delivered => startTime = 0

\* Started is left by the failure of an instance that had been running for a
\* while
C13_Witness ==
    /\ lastEv.type = "PIPELINE_ENDED"
    /\ lastEv.delivered
    /\ lastEv.stream = "started"
    /\ stream = "restarting"
    /\ startTime = Null

\* an instance whose construction succeeded: it returned a cleanup function
Constructed(h) == handles[h].status \in {"active", "stopped"}

\* the instance the controller is running right now
Current(h) == status = "active" /\ stream \in {"waiting", "started"} /\ h = child

C15_OneLiveHandle ==
    /\ Cardinality({h \in 1..MaxSpawns : Live(h)}) <= 1
    /\ \A h \in 1..MaxSpawns : Live(h) => h = spawned /\ h = child

\* a START during the backoff spawned the second instance while the bus
\* watcher of the first, torn down, had not yet returned
C15_Witness ==
    /\ lastEv.type = "START"
    /\ lastEv.stream = "restarting"
    /\ spawned = 2
    /\ Live(2)
    /\ handles[1].status = "stopped"
    /\ handles[1].watching

\* the time of the first scripted UNCENSOR plus delaySeconds: t=15
C16_ReleaseAt == Script[4].at + DefaultDelaySeconds

\* C16: in the scenario START, PIPELINE_STARTED, CENSOR, UNCENSOR at t=0 with
\* no further event, the step of the CENSOR sends RENDER_CENSORED (and nothing
\* else), RENDER_NORMAL is sent at t=15, by the step of the timer, and at no
\* other time after the CENSOR.
C16_ReleaseAfterDelay ==
    /\ scen.step = 3 =>
          /\ lastEv.type = "CENSOR"
          /\ Sent("RENDER_CENSORED")
          /\ ~Sent("RENDER_NORMAL")
    /\ scen.step = 4 =>
          /\ Sent("RENDER_NORMAL") => scen.clock = C16_ReleaseAt
          /\ lastEv.type = "xstate.after.STREAM_DELAY" =>
                scen.clock = C16_ReleaseAt /\ Sent("RENDER_NORMAL")
          /\ scen.clock > C16_ReleaseAt => censorship = "normal"
          /\ scen.clock < C16_ReleaseAt => censorship # "normal"

C16_Witness ==
    /\ scen.step = 4
    /\ scen.clock = C16_ReleaseAt
    /\ lastEv.type = "xstate.after.STREAM_DELAY"
    /\ cmds # <<>>
    /\ \A i \in 1..Len(cmds) : cmds[i] = [to |-> child, type |-> "RENDER_NORMAL"]

Mode(c) == IF c = "normal" THEN "normal" ELSE "censored"

\* C18: render commands are sent only by steps that end in Running.Started,
\* to the live instance, and they match the censorship mode; a step that
\* changes the mode sends the matching command if the stream is
\* Running.Started and nothing otherwise, and the step that enters Started
\* sends the command of the mode reached meanwhile.
C18_CommandsOnlyWhenStarted ==
    /\ cmds # <<>> =>
          /\ stream = "started"
          /\ Live(child)
          /\ \A i \in 1..Len(cmds) :
                cmds[i] = [to |-> child, type |-> RenderFor(censorship)]
    /\ lastEv.type # "none" /\ Mode(lastEv.cens) # Mode(censorship) =>
          /\ stream = lastEv.stream
          /\ IF stream = "started" THEN cmds # <<>> ELSE cmds = <<>>
    /\ lastEv.type = "PIPELINE_STARTED" /\ lastEv.delivered =>
          Sent(RenderFor(censorship))

\* the release timer fires while the stream is Running.Started
C18_Witness ==
    /\ lastEv.type = "xstate.after.STREAM_DELAY"
    /\ lastEv.cens = "deactivating"
    /\ lastEv.stream = "started"
    /\ censorship = "normal"
    /\ Sent("RENDER_NORMAL")

\* C19: a STREAM_DELAY timer is pending if and only if the censorship region
\* is CensoredDeactivating, and a RESTART_DELAY timer is pending if and only
\* if the stream region is Restarting.
C19_TimersMatchStates ==
    /\ delayTimer # Null <=> censorship = "deactivating"
    /\ restartTimer # Null <=> stream = "restarting"

\* C20: an UNCENSOR processed while the censorship region is Normal leaves it
\* Normal and starts no release timer; the stream state, startTime, the
\* restart timer and the instances of runPipeline are as before.
C20_UncensorInNormal ==
    [][lastEv'.type = "UNCENSOR" /\ censorship = "normal" =>
          /\ censorship' = "normal"
          /\ delayTimer' = Null
          /\ stream' = stream
          /\ startTime' = startTime
          /\ restartTimer' = restartTimer
          /\ child' = child
          /\ spawned' = spawned
          /\ handles' = handles
          /\ status' = status]_vars

\* the UNCENSOR arrived while an instance was running
C20_Witness ==
    /\ lastEv.type = "UNCENSOR"
    /\ lastEv.delivered
    /\ lastEv.cens = "normal"
    /\ lastEv.stream = "started"
    /\ censorship = "normal"
    /\ stream = "started"
    /\ startTime = 1

\* the release delay is running and the step just taken was no censorship
\* request
C21_Waiting ==
    /\ censorship = "deactivating"
    /\ ~(lastEv.type \in {"CENSOR", "UNCENSOR"} /\ lastEv.delivered)

\* C21: an UNCENSOR processed in CensoredActive enters CensoredDeactivating
\* with a timer of exactly delaySeconds, and while the release delay runs the
\* region eventually becomes Normal unless a CENSOR or an UNCENSOR is
\* processed first (or the run reaches the last instance that is modelled).
C21_ReleaseEventually ==
    /\ [][lastEv'.type = "UNCENSOR" /\ lastEv'.delivered /\ censorship = "active" =>
             censorship' = "deactivating" /\ delayTimer' = settings.delaySeconds]_vars
    /\ C21_Waiting ~>
          \/ censorship = "normal"
          \/ lastEv.type \in {"CENSOR", "UNCENSOR"} /\ lastEv.delivered
          \/ spawned = MaxSpawns

\* C22: a STOP processed in Running.Waiting, Running.Started or Restarting
\* leaves the stream region Stopped: the instance that was running has been
\* torn down, no instance is live, no restart timer is pending and startTime
\* is unset.
C22_StopLeavesStopped ==
    lastEv.type = "STOP" /\ lastEv.delivered
    /\ lastEv.stream \in {"waiting", "started", "restarting"} =>
        /\ stream = "stopped"
        /\ child = 0
        /\ \A h \in 1..MaxSpawns :
              ~Live(h) /\ (Constructed(h) => handles[h].teardowns = 1)
        /\ restartTimer = Null
        /\ startTime = Null

\* the STOP found the first instance started
C22_Witness ==
    /\ lastEv.type = "STOP"
    /\ lastEv.delivered
    /\ lastEv.stream = "started"
    /\ spawned = 1
    /\ handles[1].status = "stopped"
    /\ stream = "stopped"

\* every event the machine can be handed
MachineEvents ==
    ApiEvents \cup EngineEvents
    \cup {"xstate.after.STREAM_DELAY", "xstate.after.RESTART_DELAY"}

MessagesTo(ws) == SelectSeq(wsOut, LAMBDA msg : msg.to = ws)

\* C24: a status is broadcast only when the status changed, and once per
\* change: a step that is no connection request sends status messages only
\* if it changed the status, and never the same status twice to one socket.
C24_BroadcastOnlyOnChange ==
    [][req'.kind # "WS" =>
          /\ wsOut' # <<>> => formatStatus(Snapshot)' # formatStatus(Snapshot)
          /\ \A ws \in 1..MaxSockets : \A i, j \in 1..Len(MessagesTo(ws)') :
                i # j => MessagesTo(ws)'[i].status # MessagesTo(ws)'[j].status]_vars

\* the events the machine was handed in the last step
StepEvents ==
    IF sent # <<>> THEN sent
    ELSE IF lastEv.delivered THEN <<lastEv.type>> ELSE <<>>

\* the statuses that follow m as the events evs are processed one by one,
\* each kept only if it differs from the one before it
RECURSIVE ChangeSeq(_, _)
ChangeSeq(m, evs) ==
    IF evs = <<>> THEN <<>>
    ELSE LET r == Deliver(m, Head(evs))
         IN  (IF formatStatus(r) # formatStatus(m) THEN <<formatStatus(r)>> ELSE <<>>)
             \o ChangeSeq(r, Tail(evs))

\* the statuses that the socket ws received in the last step
Received(ws) ==
    LET got == SelectSeq(wsOut, LAMBDA msg : msg.to = ws /\ msg.ok)
    IN  [i \in 1..Len(got) |-> got[i].status]

\* a sequence without its immediate repetitions
RECURSIVE Dedup(_)
Dedup(s) ==
    IF Len(s) < 2 THEN s
    ELSE IF s[1] = s[2] THEN Dedup(Tail(s))
    ELSE <<s[1]>> \o Dedup(Tail(s))

\* C25: in every step that is no connection request, each socket that is
\* open receives the statuses the step's events produced, each changed status
\* once and in the order of the changes (a repetition of the status it
\* already has aside); and only a socket that is in `sockets` and open ever
\* receives a message.
C25_EveryChangeInOrder ==
    [][/\ req'.kind # "WS" =>
             \A ws \in 1..MaxSockets : wsState[ws] = "open" =>
                 Dedup(<<formatStatus(Snapshot)>> \o Received(ws)')
                    = <<formatStatus(Snapshot)>> \o ChangeSeq(Snapshot, StepEvents')
       /\ \A i \in 1..Len(wsOut') :
             /\ \E k \in 1..Len(sockets') : sockets'[k] = wsOut'[i].to
             /\ wsOut'[i].ok <=> wsState'[wsOut'[i].to] = "open"
       /\ \A ws \in 1..MaxSockets : wsState'[ws] # "open" => Received(ws)' = <<>>]_vars

\* two sockets are open, a third party's message censors and starts the
\* stream: both sockets receive the two changed statuses, in that order
C25_Witness ==
    /\ Len(sockets) = 2
    /\ wsState[1] = "open" /\ wsState[2] = "open"
    /\ sent = <<"CENSOR", "START">>
    /\ Len(Received(1)) = 2 /\ Received(1) = Received(2)
    /\ ~Received(1)[1].isStreamRunning /\ Received(1)[1].isCensored
    /\ Received(1)[2] = formatStatus(Snapshot)
    /\ formatStatus(Snapshot).isStreamRunning

\* C26: a socket receives nothing before its connection request is served,
\* and the step that serves it sends the socket one message, the current
\* status, which the step leaves as it is: whatever change notification
\* follows comes after it.
C26_CurrentStatusFirst ==
    [][\A ws \in 1..MaxSockets : wsState[ws] = "new" =>
          /\ wsState'[ws] = "open" =>
                /\ MessagesTo(ws)' = <<[to |-> ws, status |-> formatStatus(Snapshot)',
                                       ok |-> TRUE]>>
                /\ formatStatus(Snapshot)' = formatStatus(Snapshot)
          /\ wsState'[ws] # "open" => MessagesTo(ws)' = <<>>]_vars

\* a second client connects while the stream runs censored
C26_Witness ==
    /\ req.kind = "WS"
    /\ resp.code = 101
    /\ sockets = <<1, 2>>
    /\ wsOut = <<[to |-> 2, status |-> formatStatus(Snapshot), ok |-> TRUE]>>
    /\ stream = "started"
    /\ censorship = "active"

\* the messages of out that were addressed to the socket ws
Attempted(out, ws) == SelectSeq(out, LAMBDA msg : msg.to = ws)

\* C27: when a status message of a step cannot be delivered to its socket,
\* every open socket still receives as many messages as were attempted to
\* that socket, the subscriber has run to its end, and the machine is where
\* the step's events take it.
C27_FailureIsolated ==
    [][req'.kind # "WS" /\ (\E i \in 1..Len(wsOut') : ~wsOut'[i].ok) =>
          /\ \A i \in 1..Len(wsOut') : \A ws \in 1..MaxSockets :
                ~wsOut'[i].ok /\ wsState[ws] = "open" =>
                    Len(Received(ws)') = Len(Attempted(wsOut', wsOut'[i].to))
          /\ lastSnapshot' = "set"
          /\ LET r == SendAll(Snapshot, StepEvents')
             IN  /\ status' = r.status
                 /\ censorship' = r.cens
                 /\ stream' = r.stream
                 /\ startTime' = r.startTime
                 /\ cmds' = r.out]_vars

\* the first socket is closing, the second open: a change of the status is
\* not delivered to the first and is delivered to the second
C27_Witness ==
    /\ sockets = <<1, 2>>
    /\ wsState[1] = "closing" /\ wsState[2] = "open"
    /\ Len(wsOut) = 2
    /\ wsOut[1].to = 1 /\ ~wsOut[1].ok
    /\ wsOut[2].to = 2 /\ wsOut[2].ok
    /\ wsOut[2].status = formatStatus(Snapshot)
    /\ status = "active"
    /\ lastEv.delivered

PatchSends(body) == IF ValidBody(body) THEN PatchEvents(body) ELSE <<>>

\* C29: a message on a socket sends the machine the events that PATCH
\* /status sends for the same body, in the same order.
C29_MessageAsPatch ==
    req.kind = "MESSAGE" => sent = PatchSends(req.body)

\* the response of a successful PATCH /status
Response == resp.body[1]

\* C30: the response of a PATCH /status is the status after the events of
\* the request: isStreamRunning is true after isStreamRunning=true and false
\* after isStreamRunning=false, isCensored is true after isCensored=true.
C30_ResponseReflectsRequest ==
    req.kind = "PATCH" /\ resp.code = 200 =>
        /\ Response = formatStatus(Snapshot)
        /\ CoercedBody(req.body).isStreamRunning = "true" => Response.isStreamRunning
        /\ CoercedBody(req.body).isStreamRunning = "false" => ~Response.isStreamRunning
        /\ CoercedBody(req.body).isCensored = "true" => Response.isCensored

\* C31: whenever the stream is started (between two events), the last render
\* command taken by the current instance matches the censorship state:
\* RENDER_CENSORED in censored.active and censored.deactivating,
\* RENDER_NORMAL in normal.
C31_RenderMatchesCensorship ==
    stream = "started" =>
        /\ child # 0
        /\ handles[child].status = "active"
        /\ handles[child].render = RenderFor(censorship)

\* the release timer fired while the stream was started: the instance that
\* was rendering censored has taken RENDER_NORMAL
C31_Witness ==
    /\ stream = "started"
    /\ lastEv.type = "xstate.after.STREAM_DELAY"
    /\ lastEv.cens = "deactivating"
    /\ censorship = "normal"
    /\ handles[child].render = "RENDER_NORMAL"

\* C32: an UNCENSOR processed in censored.deactivating leaves the region
\* there with a release timer of the full delaySeconds; while the machine
\* runs, the timer of deactivating always has delaySeconds minus the time
\* since the last UNCENSOR to go; and the region leaves deactivating for
\* normal only by that timer, delaySeconds after the last UNCENSOR.
C32_UncensorRestartsDelay ==
    [][/\ lastEv'.type = "UNCENSOR" /\ lastEv'.delivered /\ censorship = "deactivating" =>
             censorship' = "deactivating" /\ delayTimer' = settings.delaySeconds
       /\ status' = "active" /\ censorship' = "deactivating" =>
             requestAge' # Null /\ delayTimer' = settings.delaySeconds - requestAge'
       /\ censorship = "deactivating" /\ censorship' = "normal" =>
             /\ lastEv'.type = "xstate.after.STREAM_DELAY"
             /\ requestAge = settings.delaySeconds]_vars

\* a second UNCENSOR, taken when the timer of the first had one second left
C32_Restarted ==
    /\ lastEv.type = "UNCENSOR"
    /\ lastEv.delivered
    /\ lastEv.cens = "deactivating"
    /\ delayTimer = settings.delaySeconds
    /\ uncensorT = 0
    /\ stream = "started"

\* C33: a START processed while the stream is restarting moves it to
\* running.waiting in the same step, with one new live instance and the
\* restart timer canceled; an instance is only ever spawned one at a time, by
\* START or by the restart timer, from stopped or restarting; and a restart
\* timer exists only in restarting, so that none is left to fire later.
C33_StartWhileRestarting ==
    [][/\ lastEv'.type = "START" /\ lastEv'.delivered /\ stream = "restarting" =>
             /\ stream' = "waiting"
             /\ spawned' = spawned + 1
             /\ child' = spawned'
             /\ Live(child)'
             /\ \A h \in 1..MaxSpawns : h # child' => ~Live(h)'
             /\ restartTimer' = Null
       /\ spawned' # spawned =>
             /\ spawned' = spawned + 1
             /\ lastEv'.type \in {"START", "xstate.after.RESTART_DELAY"}
             /\ stream \in {"stopped", "restarting"}
       /\ restartTimer' # Null => stream' = "restarting"]_vars

\* START was taken during the backoff that followed the end of the first
\* instance: the second instance runs
C33_Witness ==
    /\ lastEv.type = "START"
    /\ lastEv.delivered
    /\ lastEv.stream = "restarting"
    /\ stream = "waiting"
    /\ spawned = 2
    /\ child = 2
    /\ handles[1].teardowns = 1
    /\ restartTimer = Null

\* C34: a START processed while the stream is running (waiting or started)
\* leaves the substate, the instance (not torn down, none spawned) and
\* startTime as they are.
C34_StartWhileRunning ==
    [][lastEv'.type = "START" /\ lastEv'.delivered /\ stream \in {"waiting", "started"} =>
          /\ stream' = stream
          /\ child' = child
          /\ spawned' = spawned
          /\ handles' = handles
          /\ startTime' = startTime
          /\ restartTimer' = restartTimer]_vars

\* START taken a second after the stream started
C34_Witness ==
    /\ lastEv.type = "START"
    /\ lastEv.delivered
    /\ lastEv.stream = "started"
    /\ stream = "started"
    /\ startTime = 1
    /\ spawned = 1
    /\ Live(1)

\* C35: a PIPELINE_STARTED of the current instance, processed while the
\* stream is started, keeps the instance (not torn down, none spawned) and
\* re-enters started: startTime is the time of this event, and one render
\* command for the current censorship state is sent to the instance.
C35_StartedAgain ==
    [][lastEv'.type = "PIPELINE_STARTED" /\ lastEv'.delivered /\ stream = "started" =>
          /\ lastEv'.from = child
          /\ stream' = "started"
          /\ child' = child
          /\ spawned' = spawned
          /\ Live(child)' /\ handles'[child].teardowns = 0
          /\ startTime' = 0
          /\ censorship' = censorship
          /\ cmds' = <<[to |-> child, type |-> RenderFor(censorship)]>>]_vars

\* a second stream-start of the instance while it renders censored
C35_Witness ==
    /\ lastEv.type = "PIPELINE_STARTED"
    /\ lastEv.delivered
    /\ lastEv.stream = "started"
    /\ lastEv.from = child
    /\ censorship = "deactivating"
    /\ startTime = 0
    /\ cmds = <<[to |-> child, type |-> "RENDER_CENSORED"]>>

\* the events of the stream region and those of the censorship region
StreamEvents ==
    {"START", "STOP", "PIPELINE_STARTED", "PIPELINE_ENDED", "xstate.after.RESTART_DELAY"}

CensorshipEvents == {"CENSOR", "UNCENSOR", "xstate.after.STREAM_DELAY"}

\* C36: START, STOP, PIPELINE_STARTED, PIPELINE_ENDED and the restart timer
\* leave the censorship state and the release timer as they are.
C36_StreamEventsKeepCensorship ==
    [][lastEv'.type \in StreamEvents =>
          censorship' = censorship /\ delayTimer' = delayTimer]_vars

\* C37: CENSOR, UNCENSOR and the release timer leave the stream region's
\* state, the instances (none spawned, none torn down), the restart timer and
\* startTime as they are.
C37_CensorshipEventsKeepStream ==
    [][lastEv'.type \in CensorshipEvents =>
          /\ stream' = stream
          /\ child' = child
          /\ spawned' = spawned
          /\ \A h \in 1..MaxSpawns :
                /\ handles'[h].status = handles[h].status
                /\ handles'[h].teardowns = handles[h].teardowns
          /\ restartTimer' = restartTimer
          /\ startTime' = startTime]_vars

\* CENSOR taken a second after the stream started: the instance runs on and
\* its start time stands
C37_Witness ==
    /\ lastEv.type = "CENSOR"
    /\ lastEv.delivered
    /\ lastEv.cens = "normal"
    /\ censorship = "active"
    /\ stream = "started"
    /\ startTime = 1
    /\ Live(child)
    /\ handles[child].render = "RENDER_CENSORED"

\* C38: the two events of a request with both fields are sent censorship
\* event first, and the stream event is processed when the censorship event
\* is (the region is found censored after CENSOR); so an instance started by
\* isCensored=true with isStreamRunning=true, with no un-censor request
\* since, takes RENDER_CENSORED as its first render command.
C38_CensoredFromFirstFrame ==
    [][/\ Len(sent') = 2 =>
             /\ sent'[1] \in {"CENSOR", "UNCENSOR"} /\ sent'[2] \in {"START", "STOP"}
             /\ sent'[1] = "CENSOR" /\ status = "active" => lastEv'.cens # "normal"
       /\ lastEv'.type = "PIPELINE_STARTED" /\ lastEv'.delivered /\ stream = "waiting"
          /\ handles[child].censoredStart =>
             /\ cmds' # <<>>
             /\ cmds'[1] = [to |-> child, type |-> "RENDER_CENSORED"]]_vars

====
